---- MODULE Spec2Model ----
(***************************************************************************)
(* keycloak-vue: the reactive store (createKeycloakState), the state sync  *)
(* (updateState), the seven adapter event handlers (setupCallbacks) and    *)
(* the operations of the handle returned by initKeycloak.                  *)
(*                                                                         *)
(* keycloak-js is an external dependency.  It is modelled as the           *)
(* environment: its fields (kc) take any value the KeycloakInstance type   *)
(* admits, its promises settle either way at any later step, and it may    *)
(* raise any of its seven events once the handlers are registered.         *)
(*                                                                         *)
(* JavaScript values: a string field is a string, with Undef for           *)
(* undefined; an optional boolean, object or array is a sequence of        *)
(* length 0 (undefined / null) or 1 (the value).                           *)
(***************************************************************************)
EXTENDS Integers, Sequences, FiniteSets, TLC

VARIABLES
  globalState,   \* the module-level singleton store: None, or Some(record)
  kc,            \* the adapter's own fields
  callbacks,     \* the caller's callbacks registered by setupCallbacks
  pending,       \* per operation, the adapter promises not yet settled
  built,         \* one entry per adapter constructed, with what it was given
  app,           \* the Vue application: what install provided, what it logged
  last           \* the step just taken and what it handed to its caller

vars == <<globalState, kc, callbacks, pending, built, app, last>>

\* ------------------------------------------------------------------ bounds

\* init, updateToken and loadUserProfile calls awaiting the adapter, in all
MaxPending == 2

\* app.use(createKeycloakPlugin(options)) calls on the application
MaxInstalls == 2

\* ------------------------------------------------------------ JS values

Undef == "undefined"
None == <<>>
Some(x) == <<x>>

\* timeSkew: number | null | undefined
SkewNull == [k |-> "null"]
SkewUndef == [k |-> "undefined"]
SkewNum(n) == [k |-> "number", n |-> n]

\* a ?? b on a timeSkew value
NullishOr(a, b) == IF a.k \in {"null", "undefined"} THEN b ELSE a

\* a || false on an optional boolean
OrFalse(a) == IF a = None THEN FALSE ELSE a[1]

\* -------------------------------------------------- adapter snapshots

AliceClaims == [preferred_username |-> "alice", email |-> "alice@kc.example",
                name |-> "A. L.", given_name |-> Undef, family_name |-> Undef]

\* new Keycloak(config) before any login, and again after a logout
KcFresh ==
  [authenticated |-> None, token |-> Undef, tokenParsed |-> None,
   idToken |-> Undef, idTokenParsed |-> None,
   refreshToken |-> Undef, refreshTokenParsed |-> None,
   subject |-> Undef, realmAccess |-> None, resourceAccess |-> None,
   timeSkew |-> SkewNull, responseMode |-> Undef, flow |-> Undef,
   responseType |-> Undef]

\* a logged-in user with all three tokens
KcAlice ==
  [authenticated |-> Some(TRUE),
   token |-> "at1", tokenParsed |-> Some(AliceClaims),
   idToken |-> "it1", idTokenParsed |-> Some(AliceClaims),
   refreshToken |-> "rt1", refreshTokenParsed |-> Some(AliceClaims),
   subject |-> "user-123",
   realmAccess |-> Some([roles |-> <<"admin", "user">>]),
   resourceAccess |-> Some([app |-> [roles |-> <<"view">>]]),
   timeSkew |-> SkewNum(0), responseMode |-> "fragment", flow |-> "standard",
   responseType |-> "code"]

\* authenticated and token are independent optional fields of the type:
\* the flag set, the tokens gone
KcFlagOnly ==
  [KcFresh EXCEPT !.authenticated = Some(TRUE), !.timeSkew = SkewNum(0),
                  !.responseMode = "fragment", !.flow = "standard",
                  !.responseType = "code"]

Snapshots == {KcFresh, KcAlice, KcFlagOnly}

\* what a delegated call can reject with: an Error, or any other value (here
\* a string, whose String() is itself)
Rejections == {[isError |-> TRUE, text |-> "network"],
               [isError |-> FALSE, text |-> "timeout"]}

\* the argument of the auth-error event
AuthErrors == {None,
               Some([error |-> "access_denied", error_description |-> Undef]),
               Some([error |-> "access_denied", error_description |-> "denied by user"])}

\* the seven callback slots of KeycloakCallbacks
AllCallbacks == {"onReady", "onAuthSuccess", "onAuthError", "onAuthRefreshSuccess",
                 "onAuthRefreshError", "onAuthLogout", "onTokenExpired"}

\* what a caller passes as callbacks: nothing, or all seven
CallbackSets == {{}, AllCallbacks}

Profiles == {[username |-> "alice", email |-> "a@kc.example",
              firstName |-> "Ada", lastName |-> "Lovelace"]}

\* a second record, as the account console returns after the user edits it
EditedProfile == [username |-> "alice", email |-> "ada@kc.example",
                  firstName |-> "Ada", lastName |-> Undef]

\* KeycloakConfig: the test suite's, and another realm
TestConfig == [url |-> "http://localhost:8080/auth", realm |-> "test-realm",
               clientId |-> "test-client"]
OtherConfig == [TestConfig EXCEPT !.realm = "other-realm"]
Configs == {TestConfig, OtherConfig}

\* KeycloakInitOptions, every field optional: {} has none of them
NoOptions ==
  [onLoad |-> None, useNonce |-> None, checkLoginIframe |-> None,
   checkLoginIframeInterval |-> None, responseMode |-> None, flow |-> None,
   pkceMethod |-> None, silentCheckSsoFallback |-> None, enableLogging |-> None,
   messageReceiveTimeout |-> None, adapter |-> None]

DEFAULT_INIT_OPTIONS ==
  [NoOptions EXCEPT !.useNonce = Some(TRUE), !.checkLoginIframe = Some(TRUE),
                    !.checkLoginIframeInterval = Some(5),
                    !.responseMode = Some("fragment"), !.flow = Some("standard"),
                    !.pkceMethod = Some("S256"),
                    !.silentCheckSsoFallback = Some(TRUE),
                    !.enableLogging = Some(FALSE),
                    !.messageReceiveTimeout = Some(10000),
                    !.adapter = Some("default")]

\* { onLoad: 'check-sso' }
CheckSso == [NoOptions EXCEPT !.onLoad = Some("check-sso")]

\* what a caller passes as init options: nothing, or some of the fields
InitOptionSets == {None, Some(CheckSso)}

\* options || {}
OrEmpty(options) == IF options = None THEN NoOptions ELSE options[1]

\* KeycloakPluginOptions
PluginOptions ==
  [config : Configs, initOptions : InitOptionSets,
   autoInit : {None, Some(TRUE), Some(FALSE)}, callbacks : CallbackSets]

\* the object initKeycloak returns: readonly views of the refs of the one
\* store, its getters, and the methods closed over it
Handle == [state |-> "globalState", getters |-> "globalGetters"]

\* createApp(): nothing provided, no $keycloak; installs counts the plugin
\* installs, autoInits the inits started by install and not yet settled,
\* logged what install's catch wrote with console.error
createApp ==
  [provided |-> None, property |-> None, installs |-> 0, autoInits |-> 0,
   logged |-> <<>>]

NotInitialized ==
  "Keycloak not initialized. Make sure to install the plugin with app.use(createKeycloakPlugin(config))"

\* how an adapter promise settles: resolved, or rejected with a value
Outcomes == {None} \cup {Some(r) : r \in Rejections}

\* the operations that run code after the adapter's promise settles
AsyncOps == {"init", "updateToken", "loadUserProfile"}

Delegating == {"login", "logout", "register", "accountManagement"}

\* ------------------------------------------------------------- the store

createKeycloakState ==
  [instance |-> None, isAuthenticated |-> FALSE, isReady |-> FALSE,
   token |-> Undef, tokenParsed |-> None,
   idToken |-> Undef, idTokenParsed |-> None,
   refreshToken |-> Undef, refreshTokenParsed |-> None,
   subject |-> Undef, profile |-> None,
   realmAccess |-> None, resourceAccess |-> None,
   timeSkew |-> SkewUndef, responseMode |-> Undef, flow |-> Undef,
   adapter |-> Undef, responseType |-> Undef,
   isLoading |-> FALSE, error |-> None]

\* a sync that copies everything but the refresh token
updateState_SkipsRefreshToken(state, instance) ==
  [state EXCEPT !.isAuthenticated = OrFalse(instance.authenticated),
                !.token = instance.token,
                !.tokenParsed = instance.tokenParsed,
                !.idToken = instance.idToken,
                !.idTokenParsed = instance.idTokenParsed,
                !.subject = instance.subject,
                !.realmAccess = instance.realmAccess,
                !.resourceAccess = instance.resourceAccess,
                !.timeSkew = NullishOr(instance.timeSkew, SkewUndef),
                !.responseMode = instance.responseMode,
                !.flow = instance.flow,
                !.responseType = instance.responseType]

updateState(state, instance) ==
  [state EXCEPT !.isAuthenticated = OrFalse(instance.authenticated),
                !.token = instance.token,
                !.tokenParsed = instance.tokenParsed,
                !.idToken = instance.idToken,
                !.idTokenParsed = instance.idTokenParsed,
                !.refreshToken = instance.refreshToken,
                !.refreshTokenParsed = instance.refreshTokenParsed,
                !.subject = instance.subject,
                !.realmAccess = instance.realmAccess,
                !.resourceAccess = instance.resourceAccess,
                !.timeSkew = NullishOr(instance.timeSkew, SkewUndef),
                !.responseMode = instance.responseMode,
                !.flow = instance.flow,
                !.responseType = instance.responseType]

\* new Error(message)
Error(message) == [isError |-> TRUE, text |-> message]

\* error instanceof Error ? error : new Error(String(error))
toError(r) == IF r.isError THEN r ELSE Error(r.text)

\* error?.error_description || error?.error || 'Authentication error'
authErrorMessage(e) ==
  IF e = None THEN "Authentication error"
  ELSE IF e[1].error_description \notin {Undef, ""} THEN e[1].error_description
  ELSE IF e[1].error \notin {Undef, ""} THEN e[1].error
  ELSE "Authentication error"

\* ------------------------------------------------------------ the getters

\* a || b on strings: undefined and '' are falsy
OrElse(a, b) == IF a \in {Undef, ""} THEN b ELSE a

\* state.tokenParsed.value?.claim and state.profile.value?.field
Claim(st, claim) == IF st.tokenParsed = None THEN Undef ELSE st.tokenParsed[1][claim]
ProfileField(st, field) == IF st.profile = None THEN Undef ELSE st.profile[1][field]

\* an expiry test that asks the adapter whatever the store's claims
isTokenExpired_IgnoresClaims(st, answer) == IF st.instance = None THEN TRUE ELSE answer

\* `answer` is what the adapter's isTokenExpired(0) returns
isTokenExpired(st, answer) ==
  IF st.instance = None \/ st.tokenParsed = None THEN TRUE ELSE answer

\* a username that asks the profile first
username_ProfileFirst(st) ==
  OrElse(ProfileField(st, "username"), Claim(st, "preferred_username"))

username(st) == OrElse(Claim(st, "preferred_username"), ProfileField(st, "username"))

email(st) == OrElse(Claim(st, "email"), ProfileField(st, "email"))

\* a fullName that prefers the token's name claim
fullName_TokenFirst(st) ==
  IF Claim(st, "name") \notin {Undef, ""} THEN Claim(st, "name")
  ELSE IF ProfileField(st, "firstName") \notin {Undef, ""}
          /\ ProfileField(st, "lastName") \notin {Undef, ""}
       THEN ProfileField(st, "firstName") \o " " \o ProfileField(st, "lastName")
       ELSE Undef

fullName(st) ==
  IF ProfileField(st, "firstName") \notin {Undef, ""}
     /\ ProfileField(st, "lastName") \notin {Undef, ""}
  THEN ProfileField(st, "firstName") \o " " \o ProfileField(st, "lastName")
  ELSE Claim(st, "name")

firstName(st) == OrElse(ProfileField(st, "firstName"), Claim(st, "given_name"))

lastName(st) == OrElse(ProfileField(st, "lastName"), Claim(st, "family_name"))

\* a role test answered from the store's own realmAccess, adapter or not
hasRealmRole_FromStore(st, role, answer) ==
  /\ st.realmAccess # None
  /\ \E i \in DOMAIN st.realmAccess[1].roles : st.realmAccess[1].roles[i] = role

\* `answer` is what the adapter's hasRealmRole(role) returns
hasRealmRole(st, role, answer) == IF st.instance = None THEN FALSE ELSE answer

\* `answer` is what the adapter's hasResourceRole(role, resource) returns
hasResourceRole(st, role, resource, answer) ==
  IF st.instance = None THEN FALSE ELSE answer

\* realmRoles without the `|| []`
realmRoles_NoDefault(st) ==
  IF st.realmAccess = None THEN None ELSE Some(st.realmAccess[1].roles)

\* state.realmAccess.value?.roles || []: an array whatever the store holds
realmRoles(st) ==
  IF st.realmAccess = None THEN Some(<<>>) ELSE Some(st.realmAccess[1].roles)

\* state.resourceAccess.value?.[resource]?.roles || []
resourceRoles(st, resource) ==
  IF st.resourceAccess = None THEN Some(<<>>)
  ELSE IF resource \notin DOMAIN st.resourceAccess[1] THEN Some(<<>>)
  ELSE Some(st.resourceAccess[1][resource].roles)

\* ------------------------------------------------------- bookkeeping

Created == globalState # None
state == globalState[1]
HasInstance == Created /\ state.instance # None

\* op: the operation or event; out: call | resolved | rejected | returned |
\* event | changed; ret: the value returned; thrown: the value re-raised;
\* cb: the caller callbacks invoked by the step, with their argument
\* arg: the arguments the step was called with; calls: the constructor and
\* init calls the step made on the adapter, with what it passed
NoLast == [op |-> "none", out |-> "none", ret |-> None, thrown |-> None, cb |-> <<>>,
           arg |-> None, calls |-> <<>>]
Step(op, out, ret, thrown) ==
  [op |-> op, out |-> out, ret |-> ret, thrown |-> thrown, cb |-> <<>>,
   arg |-> None, calls |-> <<>>]
Event(op, cb) ==
  [op |-> op, out |-> "event", ret |-> None, thrown |-> None, cb |-> cb,
   arg |-> None, calls |-> <<>>]
Call(fn, arg) == [fn |-> fn, arg |-> arg]

Total(p) == p["init"] + p["updateToken"] + p["loadUserProfile"]

Delegate(op) == pending' = [pending EXCEPT ![op] = @ + 1]
Settle(op) == pending' = [pending EXCEPT ![op] = @ - 1]

Init ==
  /\ globalState = None
  /\ kc = KcFresh
  /\ callbacks = {}
  /\ pending = [op \in AsyncOps |-> 0]
  /\ built = <<>>
  /\ app = createApp
  /\ last = NoLast

\* --------------------------------------------------------- construction

\* the store initKeycloak leaves: created if there was none, given an adapter
\* if it had none
WithInstance ==
  LET s == IF globalState = None THEN createKeycloakState ELSE state
  IN IF s.instance = None THEN [s EXCEPT !.instance = Some("kc")] ELSE s

\* createKeycloakInstance(config) and setupCallbacks(instance, state, callbacks)
Build(config, cbs) == Append(built, [config |-> config, callbacks |-> cbs])

\* an initKeycloak without the `if (!state.instance.value)`: every call
\* constructs an adapter and registers the callbacks it was given
initKeycloak_Rebuilds(config, cbs) ==
  /\ globalState' = Some(WithInstance)
  /\ built' = Build(config, cbs)
  /\ callbacks' = cbs
  /\ last' = [Step("initKeycloak", "returned", Some(Handle), None)
                EXCEPT !.arg = Some([config |-> config, callbacks |-> cbs]),
                       !.calls = <<Call("new Keycloak", config)>>]
  /\ UNCHANGED <<kc, pending, app>>

\* an initKeycloak that keeps its adapter only while the config is the same,
\* and puts a new adapter in the store when a call brings another config
initKeycloak_AdapterPerConfig(config, cbs) ==
  LET same == HasInstance /\ built[Len(built)].config = config IN
  /\ globalState' = Some(WithInstance)
  /\ built' = IF same THEN built ELSE Build(config, cbs)
  /\ callbacks' = IF same THEN callbacks ELSE cbs
  /\ last' = [Step("initKeycloak", "returned", Some(Handle), None)
                EXCEPT !.arg = Some([config |-> config, callbacks |-> cbs]),
                       !.calls = IF same THEN <<>>
                                 ELSE <<Call("new Keycloak", config)>>]
  /\ UNCHANGED <<kc, pending, app>>

\* initKeycloak(config, callbacks)
initKeycloak(config, cbs) ==
  /\ globalState' = Some(WithInstance)
  /\ built' = IF HasInstance THEN built ELSE Build(config, cbs)
  /\ callbacks' = IF HasInstance THEN callbacks ELSE cbs
  /\ last' = [Step("initKeycloak", "returned", Some(Handle), None)
                EXCEPT !.arg = Some([config |-> config, callbacks |-> cbs]),
                       !.calls = IF HasInstance THEN <<>>
                                 ELSE <<Call("new Keycloak", config)>>]
  /\ UNCHANGED <<kc, pending, app>>

\* ------------------------------------------------- the adapter, outside

\* the adapter rewrites its own fields (token exchange, refresh, logout)
AdapterChange(snap) ==
  /\ HasInstance
  /\ snap # kc
  /\ kc' = snap
  /\ last' = Step("adapter", "changed", None, None)
  /\ UNCHANGED <<globalState, callbacks, pending, built, app>>

\* ------------------------------------------------------ event handlers

Forward(name, arg) == IF name \in callbacks THEN <<[name |-> name, arg |-> arg]>> ELSE <<>>

\* a callback invoked with arg, and the store it finds when it runs
ForwardSeeing(name, arg, st) ==
  IF name \in callbacks THEN <<[name |-> name, arg |-> arg, seen |-> st]>> ELSE <<>>

\* a ready handler that tells the caller first and writes the store after
onReady_CallbackFirst(authenticated) ==
  /\ HasInstance
  /\ globalState' =
       Some(updateState([state EXCEPT !.isReady = TRUE, !.isLoading = FALSE], kc))
  /\ last' = [Event("onReady",
                    IF authenticated # None
                    THEN ForwardSeeing("onReady", authenticated, state)
                    ELSE <<>>)
                EXCEPT !.arg = authenticated]
  /\ UNCHANGED <<kc, callbacks, pending, built, app>>

\* a ready handler that forwards every event, undefined or not
onReady_ForwardsAll(authenticated) ==
  /\ HasInstance
  /\ globalState' =
       Some(updateState([state EXCEPT !.isReady = TRUE, !.isLoading = FALSE], kc))
  /\ last' = [Event("onReady",
                    ForwardSeeing("onReady", authenticated, globalState'[1]))
                EXCEPT !.arg = authenticated]
  /\ UNCHANGED <<kc, callbacks, pending, built, app>>

\* instance.onReady(authenticated): authenticated is None for undefined
onReady(authenticated) ==
  /\ HasInstance
  /\ globalState' =
       Some(updateState([state EXCEPT !.isReady = TRUE, !.isLoading = FALSE], kc))
  /\ last' = [Event("onReady",
                    IF authenticated # None
                    THEN ForwardSeeing("onReady", authenticated, globalState'[1])
                    ELSE <<>>)
                EXCEPT !.arg = authenticated]
  /\ UNCHANGED <<kc, callbacks, pending, built, app>>

onAuthSuccess ==
  /\ HasInstance
  /\ globalState' = Some(updateState(state, kc))
  /\ last' = Event("onAuthSuccess", Forward("onAuthSuccess", None))
  /\ UNCHANGED <<kc, callbacks, pending, built, app>>

\* an auth-error handler that records the error and leaves isLoading alone
onAuthError_KeepsLoading(error) ==
  /\ HasInstance
  /\ globalState' = Some([state EXCEPT !.error = Some(Error(authErrorMessage(error)))])
  /\ last' = [Event("onAuthError",
                    IF error # None THEN Forward("onAuthError", error) ELSE <<>>)
                EXCEPT !.arg = error]
  /\ UNCHANGED <<kc, callbacks, pending, built, app>>

\* instance.onAuthError(error): error is None for undefined
onAuthError(error) ==
  /\ HasInstance
  /\ globalState' = Some([state EXCEPT !.error = Some(Error(authErrorMessage(error))),
                                       !.isLoading = FALSE])
  /\ last' = [Event("onAuthError",
                    IF error # None THEN Forward("onAuthError", error) ELSE <<>>)
                EXCEPT !.arg = error]
  /\ UNCHANGED <<kc, callbacks, pending, built, app>>

onAuthRefreshSuccess ==
  /\ HasInstance
  /\ globalState' = Some(updateState(state, kc))
  /\ last' = Event("onAuthRefreshSuccess", Forward("onAuthRefreshSuccess", None))
  /\ UNCHANGED <<kc, callbacks, pending, built, app>>

\* a refresh-error handler that also drops the tokens the refresh was for
onAuthRefreshError_DropsTokens ==
  /\ HasInstance
  /\ globalState' = Some([state EXCEPT !.isAuthenticated = FALSE,
                                       !.token = Undef, !.refreshToken = Undef])
  /\ last' = Event("onAuthRefreshError", Forward("onAuthRefreshError", None))
  /\ UNCHANGED <<kc, callbacks, pending, built, app>>

onAuthRefreshError ==
  /\ HasInstance
  /\ globalState' = Some([state EXCEPT !.isAuthenticated = FALSE])
  /\ last' = Event("onAuthRefreshError", Forward("onAuthRefreshError", None))
  /\ UNCHANGED <<kc, callbacks, pending, built, app>>

\* a logout handler that drops the flag and keeps the profile
onAuthLogout_KeepsProfile ==
  /\ HasInstance
  /\ globalState' = Some([state EXCEPT !.isAuthenticated = FALSE])
  /\ last' = Event("onAuthLogout", Forward("onAuthLogout", None))
  /\ UNCHANGED <<kc, callbacks, pending, built, app>>

onAuthLogout ==
  /\ HasInstance
  /\ globalState' = Some([state EXCEPT !.isAuthenticated = FALSE, !.profile = None])
  /\ last' = Event("onAuthLogout", Forward("onAuthLogout", None))
  /\ UNCHANGED <<kc, callbacks, pending, built, app>>

onTokenExpired ==
  /\ HasInstance
  /\ last' = Event("onTokenExpired", Forward("onTokenExpired", None))
  /\ UNCHANGED <<globalState, kc, callbacks, pending, built, app>>

\* ----------------------------------------------------------- operations

\* init that also drops readiness when it starts over
initCall_ResetsReady(options) ==
  /\ HasInstance
  /\ Total(pending) < MaxPending
  /\ globalState' = Some([state EXCEPT !.isLoading = TRUE, !.error = None,
                                       !.isReady = FALSE])
  /\ Delegate("init")
  /\ last' = [Step("init", "call", None, None)
                EXCEPT !.arg = options, !.calls = <<Call("init", OrEmpty(options))>>]
  /\ UNCHANGED <<kc, callbacks, built, app>>

\* init that forgets `state.error.value = null`
initCall_KeepsError(options) ==
  /\ HasInstance
  /\ Total(pending) < MaxPending
  /\ globalState' = Some([state EXCEPT !.isLoading = TRUE])
  /\ Delegate("init")
  /\ last' = [Step("init", "call", None, None)
                EXCEPT !.arg = options, !.calls = <<Call("init", OrEmpty(options))>>]
  /\ UNCHANGED <<kc, callbacks, built, app>>

\* init(options), up to the await
initCall(options) ==
  /\ HasInstance
  /\ Total(pending) < MaxPending
  /\ globalState' = Some([state EXCEPT !.isLoading = TRUE, !.error = None])
  /\ Delegate("init")
  /\ last' = [Step("init", "call", None, None)
                EXCEPT !.arg = options, !.calls = <<Call("init", OrEmpty(options))>>]
  /\ UNCHANGED <<kc, callbacks, built, app>>

\* an init that fills the profile from the identity token as it syncs
initResolve_FillsProfile(authenticated) ==
  /\ pending["init"] > app.autoInits
  /\ globalState' =
       Some([updateState(state, kc) EXCEPT !.isLoading = FALSE,
                                           !.profile = kc.idTokenParsed])
  /\ Settle("init")
  /\ last' = Step("init", "resolved", Some(authenticated), None)
  /\ UNCHANGED <<kc, callbacks, built, app>>

\* an init that returns the adapter's answer without the sync
initResolve_NoSync(authenticated) ==
  /\ pending["init"] > app.autoInits
  /\ globalState' = Some([state EXCEPT !.isLoading = FALSE])
  /\ Settle("init")
  /\ last' = Step("init", "resolved", Some(authenticated), None)
  /\ UNCHANGED <<kc, callbacks, built, app>>

\* an init whose success path forgets to release isLoading
initResolve_KeepsLoading(authenticated) ==
  /\ pending["init"] > app.autoInits
  /\ globalState' = Some(updateState(state, kc))
  /\ Settle("init")
  /\ last' = Step("init", "resolved", Some(authenticated), None)
  /\ UNCHANGED <<kc, callbacks, built, app>>

\* an init that declares the store ready when the adapter's promise resolves
initResolve_SetsReady(authenticated) ==
  /\ pending["init"] > app.autoInits
  /\ globalState' = Some([updateState(state, kc) EXCEPT !.isLoading = FALSE,
                                                        !.isReady = TRUE])
  /\ Settle("init")
  /\ last' = Step("init", "resolved", Some(authenticated), None)
  /\ UNCHANGED <<kc, callbacks, built, app>>

\* the adapter's init, called through the handle, resolved: the rest of the
\* try block, then finally
initResolve(authenticated) ==
  /\ pending["init"] > app.autoInits
  /\ globalState' = Some([updateState(state, kc) EXCEPT !.isLoading = FALSE])
  /\ Settle("init")
  /\ last' = Step("init", "resolved", Some(authenticated), None)
  /\ UNCHANGED <<kc, callbacks, built, app>>

\* the catch without the finally: isLoading is released on success only
initReject_NoFinally(r) ==
  /\ pending["init"] > app.autoInits
  /\ globalState' = Some([state EXCEPT !.error = Some(toError(r))])
  /\ Settle("init")
  /\ last' = Step("init", "rejected", None, Some(r))
  /\ UNCHANGED <<kc, callbacks, built, app>>

\* a catch that syncs from the adapter before recording the error
initReject_Syncs(r) ==
  /\ pending["init"] > app.autoInits
  /\ globalState' = Some([updateState(state, kc) EXCEPT !.error = Some(toError(r)),
                                                        !.isLoading = FALSE])
  /\ Settle("init")
  /\ last' = Step("init", "rejected", None, Some(r))
  /\ UNCHANGED <<kc, callbacks, built, app>>

\* the adapter's init, called through the handle, rejected: catch, then
\* finally, and the rejection goes to the caller
initReject(r) ==
  /\ pending["init"] > app.autoInits
  /\ globalState' = Some([state EXCEPT !.error = Some(toError(r)), !.isLoading = FALSE])
  /\ Settle("init")
  /\ last' = Step("init", "rejected", None, Some(r))
  /\ UNCHANGED <<kc, callbacks, built, app>>

\* the same try/catch as updateToken and loadUserProfile around the await
delegate_RecordsError(op, outcome) ==
  /\ HasInstance
  /\ globalState' = IF outcome = None THEN globalState
                    ELSE Some([state EXCEPT !.error = Some(toError(outcome[1]))])
  /\ last' = IF outcome = None THEN Step(op, "resolved", None, None)
             ELSE Step(op, "rejected", None, outcome)
  /\ UNCHANGED <<kc, callbacks, pending, built, app>>

\* login, logout, register, accountManagement: the guard, then one await of
\* the adapter's promise and nothing after it, so the call settles exactly as
\* the adapter's promise does
delegate(op, outcome) ==
  /\ HasInstance
  /\ last' = IF outcome = None THEN Step(op, "resolved", None, None)
             ELSE Step(op, "rejected", None, outcome)
  /\ UNCHANGED <<globalState, kc, callbacks, pending, built, app>>

\* an updateToken that refuses to start while another call is in flight
updateTokenCall_RefusesOverlap ==
  /\ HasInstance
  /\ Total(pending) < MaxPending
  /\ pending' = IF Total(pending) > 0 THEN pending
                ELSE [pending EXCEPT !["updateToken"] = @ + 1]
  /\ last' = IF Total(pending) > 0
             THEN Step("updateToken", "rejected", None,
                       Some(Error("Another call is in progress")))
             ELSE Step("updateToken", "call", None, None)
  /\ UNCHANGED <<globalState, kc, callbacks, built, app>>

\* updateToken(minValidity), up to the await
updateTokenCall ==
  /\ HasInstance
  /\ Total(pending) < MaxPending
  /\ Delegate("updateToken")
  /\ last' = Step("updateToken", "call", None, None)
  /\ UNCHANGED <<globalState, kc, callbacks, built, app>>

\* the sync without the `if (refreshed)` around it
updateTokenResolve_AlwaysSyncs(refreshed) ==
  /\ pending["updateToken"] > 0
  /\ globalState' = Some(updateState(state, kc))
  /\ Settle("updateToken")
  /\ last' = Step("updateToken", "resolved", Some(refreshed), None)
  /\ UNCHANGED <<kc, callbacks, built, app>>

\* an updateToken whose success also forgets the error recorded earlier
updateTokenResolve_ClearsError(refreshed) ==
  /\ pending["updateToken"] > 0
  /\ globalState' = Some([(IF refreshed THEN updateState(state, kc) ELSE state)
                            EXCEPT !.error = None])
  /\ Settle("updateToken")
  /\ last' = Step("updateToken", "resolved", Some(refreshed), None)
  /\ UNCHANGED <<kc, callbacks, built, app>>

updateTokenResolve(refreshed) ==
  /\ pending["updateToken"] > 0
  /\ globalState' = Some(IF refreshed THEN updateState(state, kc) ELSE state)
  /\ Settle("updateToken")
  /\ last' = Step("updateToken", "resolved", Some(refreshed), None)
  /\ UNCHANGED <<kc, callbacks, built, app>>

updateTokenReject(r) ==
  /\ pending["updateToken"] > 0
  /\ globalState' = Some([state EXCEPT !.error = Some(toError(r))])
  /\ Settle("updateToken")
  /\ last' = Step("updateToken", "rejected", None, Some(r))
  /\ UNCHANGED <<kc, callbacks, built, app>>

\* loadUserProfile(), up to the await
loadUserProfileCall ==
  /\ HasInstance
  /\ Total(pending) < MaxPending
  /\ Delegate("loadUserProfile")
  /\ last' = Step("loadUserProfile", "call", None, None)
  /\ UNCHANGED <<globalState, kc, callbacks, built, app>>

loadUserProfileResolve(profile) ==
  /\ pending["loadUserProfile"] > 0
  /\ globalState' = Some([state EXCEPT !.profile = Some(profile)])
  /\ Settle("loadUserProfile")
  /\ last' = Step("loadUserProfile", "resolved", Some(profile), None)
  /\ UNCHANGED <<kc, callbacks, built, app>>

\* a catch that also forgets the profile loaded earlier
loadUserProfileReject_ClearsProfile(r) ==
  /\ pending["loadUserProfile"] > 0
  /\ globalState' = Some([state EXCEPT !.error = Some(toError(r)), !.profile = None])
  /\ Settle("loadUserProfile")
  /\ last' = Step("loadUserProfile", "rejected", None, Some(r))
  /\ UNCHANGED <<kc, callbacks, built, app>>

loadUserProfileReject(r) ==
  /\ pending["loadUserProfile"] > 0
  /\ globalState' = Some([state EXCEPT !.error = Some(toError(r))])
  /\ Settle("loadUserProfile")
  /\ last' = Step("loadUserProfile", "rejected", None, Some(r))
  /\ UNCHANGED <<kc, callbacks, built, app>>

\* clearToken(): the adapter drops or keeps what it likes, then the sync
clearToken(snap) ==
  /\ HasInstance
  /\ kc' = snap
  /\ globalState' = Some(updateState(state, snap))
  /\ last' = Step("clearToken", "returned", None, None)
  /\ UNCHANGED <<callbacks, pending, built, app>>

\* ------------------------------------------------- the plugin and the app

\* options.autoInit !== false
AutoInit(options) == options.autoInit # Some(FALSE)

\* what install does whatever its variant: initKeycloak, then the start of
\* keycloak.init(options.initOptions) if `auto`, and the step's record
Installing(options, auto) ==
  /\ app.installs < MaxInstalls
  /\ auto => Total(pending) < MaxPending
  /\ globalState' = Some(IF auto THEN [WithInstance EXCEPT !.isLoading = TRUE,
                                                           !.error = None]
                         ELSE WithInstance)
  /\ built' = IF HasInstance THEN built ELSE Build(options.config, options.callbacks)
  /\ callbacks' = IF HasInstance THEN callbacks ELSE options.callbacks
  /\ pending' = IF auto THEN [pending EXCEPT !["init"] = @ + 1] ELSE pending
  /\ last' = [Step("install", "returned", None, None)
                EXCEPT !.arg = Some(options),
                       !.calls = (IF HasInstance THEN <<>>
                                  ELSE <<Call("new Keycloak", options.config)>>)
                                 \o (IF auto
                                     THEN <<Call("init", OrEmpty(options.initOptions))>>
                                     ELSE <<>>)]
  /\ UNCHANGED kc

\* an install that starts init whatever autoInit says
install_AlwaysInits(options) ==
  /\ Installing(options, TRUE)
  /\ app' = [app EXCEPT !.provided = Some(Handle), !.property = Some(Handle),
                        !.installs = @ + 1, !.autoInits = @ + 1]

\* an install that sets $keycloak and forgets app.provide
install_NoProvide(options) ==
  /\ Installing(options, AutoInit(options))
  /\ app' = [app EXCEPT !.property = Some(Handle),
                        !.installs = @ + 1,
                        !.autoInits = @ + (IF AutoInit(options) THEN 1 ELSE 0)]

\* createKeycloakPlugin(options).install(app)
install(options) ==
  /\ Installing(options, AutoInit(options))
  /\ app' = [app EXCEPT !.provided = Some(Handle), !.property = Some(Handle),
                        !.installs = @ + 1,
                        !.autoInits = @ + (IF AutoInit(options) THEN 1 ELSE 0)]

\* the init started by install resolved: init's try and finally; the plugin
\* has no then
autoInitResolve(authenticated) ==
  /\ app.autoInits > 0
  /\ globalState' = Some([updateState(state, kc) EXCEPT !.isLoading = FALSE])
  /\ Settle("init")
  /\ app' = [app EXCEPT !.autoInits = @ - 1]
  /\ last' = Step("autoInit", "resolved", None, None)
  /\ UNCHANGED <<kc, callbacks, built>>

\* a plugin without the .catch: the rejection init re-raises goes unhandled
autoInitReject_Unhandled(r) ==
  /\ app.autoInits > 0
  /\ globalState' = Some([state EXCEPT !.error = Some(toError(r)), !.isLoading = FALSE])
  /\ Settle("init")
  /\ app' = [app EXCEPT !.autoInits = @ - 1]
  /\ last' = Step("autoInit", "unhandled", None, Some(r))
  /\ UNCHANGED <<kc, callbacks, built>>

\* the init started by install rejected: init's catch and finally, then the
\* plugin's catch logs what init re-raised
autoInitReject(r) ==
  /\ app.autoInits > 0
  /\ globalState' = Some([state EXCEPT !.error = Some(toError(r)), !.isLoading = FALSE])
  /\ Settle("init")
  /\ app' = [app EXCEPT !.autoInits = @ - 1, !.logged = Append(@, r)]
  /\ last' = Step("autoInit", "caught", None, None)
  /\ UNCHANGED <<kc, callbacks, built>>

\* a useKeycloak that hands back whatever inject found
useKeycloak_ReturnsInjected ==
  /\ last' = Step("useKeycloak", "returned", app.provided, None)
  /\ UNCHANGED <<globalState, kc, callbacks, pending, built, app>>

\* useKeycloak(), in the setup of a component of the app
useKeycloak ==
  /\ last' = IF app.provided = None
             THEN Step("useKeycloak", "threw", None, Some(Error(NotInitialized)))
             ELSE Step("useKeycloak", "returned", app.provided, None)
  /\ UNCHANGED <<globalState, kc, callbacks, pending, built, app>>

Next ==
  \/ \E cbs \in CallbackSets : initKeycloak(TestConfig, cbs)
  \/ \E snap \in Snapshots : AdapterChange(snap)
  \/ \E a \in {None, Some(TRUE), Some(FALSE)} : onReady(a)
  \/ onAuthSuccess
  \/ \E e \in AuthErrors : onAuthError(e)
  \/ onAuthRefreshSuccess
  \/ onAuthRefreshError
  \/ onAuthLogout
  \/ onTokenExpired
  \/ initCall(None)
  \/ \E a \in BOOLEAN : initResolve(a)
  \/ \E r \in Rejections : initReject(r)
  \/ \E op \in Delegating, o \in Outcomes : delegate(op, o)
  \/ updateTokenCall
  \/ \E refreshed \in BOOLEAN : updateTokenResolve(refreshed)
  \/ \E r \in Rejections : updateTokenReject(r)
  \/ loadUserProfileCall
  \/ \E p \in Profiles : loadUserProfileResolve(p)
  \/ \E r \in Rejections : loadUserProfileReject(r)
  \/ \E snap \in Snapshots : clearToken(snap)

Spec == Init /\ [][Next]_vars

\* The life of the profile field: every operation and event that writes the
\* store outside the error field, with two different records for the fetch
\* to return.
ProfileNext ==
  \/ initKeycloak(TestConfig, {})
  \/ \E snap \in Snapshots : AdapterChange(snap)
  \/ \E a \in {None, Some(TRUE), Some(FALSE)} : onReady(a)
  \/ onAuthSuccess
  \/ onAuthRefreshSuccess
  \/ onAuthRefreshError
  \/ onAuthLogout
  \/ initCall(None)
  \/ \E a \in BOOLEAN : initResolve(a)
  \/ updateTokenCall
  \/ \E refreshed \in BOOLEAN : updateTokenResolve(refreshed)
  \/ loadUserProfileCall
  \/ \E p \in Profiles \cup {EditedProfile} : loadUserProfileResolve(p)
  \/ \E r \in Rejections : loadUserProfileReject(r)
  \/ \E snap \in Snapshots : clearToken(snap)

ProfileSpec == Init /\ [][ProfileNext]_vars

\* The application around the singleton: construction by initKeycloak and by
\* the plugin, retrieval by useKeycloak, and init called by hand or started
\* by install, with the adapter answering either way, logging a user in or
\* out and raising its ready event.
AppNext ==
  \/ \E config \in Configs, cbs \in CallbackSets : initKeycloak(config, cbs)
  \/ \E options \in PluginOptions : install(options)
  \/ useKeycloak
  \/ \E options \in InitOptionSets : initCall(options)
  \/ \E a \in BOOLEAN : initResolve(a)
  \/ \E r \in Rejections : initReject(r)
  \/ \E a \in BOOLEAN : autoInitResolve(a)
  \/ \E r \in Rejections : autoInitReject(r)
  \/ \E snap \in {KcFresh, KcAlice} : AdapterChange(snap)
  \/ \E a \in {Some(TRUE), Some(FALSE)} : onReady(a)

AppSpec == Init /\ [][AppNext]_vars

\* ---------------------------------------------- the getters on any store

\* parsed claims without the identity claims, and with empty ones
BareClaims == [AliceClaims EXCEPT !.preferred_username = Undef, !.email = Undef,
                                  !.name = Undef]
EmptyClaims == [AliceClaims EXCEPT !.preferred_username = "", !.email = "",
                                   !.name = ""]

\* a profile whose first name, username and email are empty strings
BlankProfile == [username |-> "", email |-> "", firstName |-> "",
                 lastName |-> "Lovelace"]

\* a profile that disagrees with the token on the username
RenamedProfile == [username |-> "ada", email |-> "ada@kc.example",
                   firstName |-> "Ada", lastName |-> "Lovelace"]

GetterProfiles == Profiles \cup {EditedProfile, BlankProfile, RenamedProfile}

\* the stores createKeycloakGetters can be given: createKeycloakState() with
\* the fields the getters read written by a sync, a fetch or the caller
GetterStores ==
  {[createKeycloakState EXCEPT !.instance = i, !.tokenParsed = t, !.profile = p,
                               !.realmAccess = ra, !.resourceAccess = rs] :
     i \in {None, Some("kc")},
     t \in {None, Some(AliceClaims), Some(BareClaims), Some(EmptyClaims)},
     p \in {None} \cup {Some(x) : x \in GetterProfiles},
     ra \in {None, KcAlice.realmAccess},
     rs \in {None, KcAlice.resourceAccess}}

Roles == {"admin", "view"}
Resources == {Undef, "app", "billing"}

GetterInit ==
  /\ globalState \in {Some(st) : st \in GetterStores}
  /\ kc = KcFresh
  /\ callbacks = {}
  /\ pending = [op \in AsyncOps |-> 0]
  /\ built = <<>>
  /\ app = createApp
  /\ last = NoLast

\* reading a getter: the store and everything else stay as they are
Read(name, arg, value, calls) ==
  /\ last' = [Step(name, "returned", value, None) EXCEPT !.arg = arg, !.calls = calls]
  /\ UNCHANGED <<globalState, kc, callbacks, pending, built, app>>

\* the call a getter makes on the adapter when the store has one, with the
\* adapter's answer
Asked(fn, arg, answer) ==
  IF state.instance = None THEN <<>>
  ELSE <<[fn |-> fn, arg |-> arg, answer |-> answer]>>

getIsTokenExpired(answer) ==
  Read("isTokenExpired", None, Some(isTokenExpired(state, answer)),
       IF state.instance = None \/ state.tokenParsed = None THEN <<>>
       ELSE Asked("isTokenExpired", 0, answer))

getUsername == Read("username", None, Some(username(state)), <<>>)
getEmail == Read("email", None, Some(email(state)), <<>>)
getFullName == Read("fullName", None, Some(fullName(state)), <<>>)
getFirstName == Read("firstName", None, Some(firstName(state)), <<>>)
getLastName == Read("lastName", None, Some(lastName(state)), <<>>)

callHasRealmRole(role, answer) ==
  Read("hasRealmRole", Some([role |-> role]),
       Some(hasRealmRole(state, role, answer)),
       Asked("hasRealmRole", [role |-> role], answer))

callHasResourceRole(role, resource, answer) ==
  Read("hasResourceRole", Some([role |-> role, resource |-> resource]),
       Some(hasResourceRole(state, role, resource, answer)),
       Asked("hasResourceRole", [role |-> role, resource |-> resource], answer))

getRealmRoles == Read("realmRoles", None, realmRoles(state), <<>>)

callResourceRoles(resource) ==
  Read("resourceRoles", Some([resource |-> resource]),
       resourceRoles(state, resource), <<>>)

GetterNext ==
  \/ \E answer \in BOOLEAN : getIsTokenExpired(answer)
  \/ getUsername
  \/ getEmail
  \/ getFullName
  \/ getFirstName
  \/ getLastName
  \/ \E role \in Roles, answer \in BOOLEAN : callHasRealmRole(role, answer)
  \/ \E role \in Roles, resource \in Resources, answer \in BOOLEAN :
       callHasResourceRole(role, resource, answer)
  \/ getRealmRoles
  \/ \E resource \in Resources \ {Undef} : callResourceRoles(resource)

GetterSpec == GetterInit /\ [][GetterNext]_vars

\* ------------------------------------------------------------ the claims

\* the fields updateState writes
MirrorNames == {"isAuthenticated", "token", "tokenParsed", "idToken", "idTokenParsed",
                "refreshToken", "refreshTokenParsed", "subject", "realmAccess",
                "resourceAccess", "timeSkew", "responseMode", "flow", "responseType"}
Mirror(st) == [f \in MirrorNames |-> st[f]]

Did(op, out) == last.op = op /\ last.out = out

\* C1: isReady is monotonic: no step of any operation or event handler takes
\* isReady from true back to false
C1_ReadyMonotonic == [][(Created /\ state.isReady) => state'.isReady]_vars

\* C1 witness: init is called again on a store that is already ready
C1_Witness == Created /\ state.isReady /\ Did("init", "call")

\* C2: whenever the store shows isAuthenticated = true, the access token is
\* present
C2_AuthenticatedHasToken ==
  Created => (state.isAuthenticated => state.token # Undef)

\* C3: when init() resolves, isReady is true at the moment the result is
\* delivered
C3_ResolvedInitIsReady == Did("init", "resolved") => state.isReady

\* C4: when init() delivers its result or its error, isLoading is false
C4_InitReleasesLoading ==
  (Did("init", "resolved") \/ Did("init", "rejected")) => ~state.isLoading

\* C4 witness: an init was rejected while the flag was up, and it is down
C4_Witness == Did("init", "rejected") /\ ~state.isLoading /\ state.error # None

\* C5: isLoading is true whenever an init or an updateToken call is pending
C5_LoadingWhilePending ==
  Created => ((pending["init"] > 0 \/ pending["updateToken"] > 0) => state.isLoading)

\* C6: a rejected init records the failure in error, re-raises the adapter's
\* rejection, and neither its start nor its failure path writes a mirrored field
C6_RejectedInitNoSync ==
  [][/\ (last'.op = "init" /\ last'.out \in {"call", "rejected"})
          => Mirror(state') = Mirror(state)
     /\ (last'.op = "init" /\ last'.out = "rejected")
          => /\ state'.error # None
             /\ state'.error = Some(toError(last'.thrown[1]))
             /\ last'.thrown # None]_vars

\* C6 witness: an init was rejected while the store differed from the adapter
C6_Witness ==
  /\ Did("init", "rejected")
  /\ state.error # None
  /\ updateState(state, kc) # state

C8_RejectionRecorded ==
  (last.out = "rejected"
     /\ last.op \in {"init", "login", "logout", "updateToken", "loadUserProfile"})
    => state.error = Some(toError(last.thrown[1]))

\* C9: login, logout, register and accountManagement change no field of the
\* store, whether the adapter resolves or rejects
C9_DelegationLeavesStore ==
  [][last'.op \in Delegating => globalState' = globalState]_vars

\* C9 witness: a delegated call was rejected and error is still null
C9_Witness ==
  /\ last.op \in Delegating
  /\ last.out = "rejected"
  /\ state.error = None

\* C10: an updateToken that resolves with refreshed = false returns false and
\* leaves every field of the store as it was
C10_NoOpRefreshLeavesStore ==
  [][(last'.op = "updateToken" /\ last'.out = "resolved" /\ last'.ret = Some(FALSE))
       => globalState' = globalState]_vars

\* C10 witness: a no-op refresh returned while the store differed from the adapter
C10_Witness ==
  /\ Did("updateToken", "resolved")
  /\ last.ret = Some(FALSE)
  /\ updateState(state, kc) # state

\* C11: a rejected loadUserProfile leaves profile exactly as it was before the
\* step, sets error to the failure and re-raises it to the caller
C11_RejectedFetchKeepsProfile ==
  [][(last'.op = "loadUserProfile" /\ last'.out = "rejected")
       => /\ state'.profile = state.profile
          /\ last'.thrown # None
          /\ state'.error = Some(toError(last'.thrown[1]))]_vars

\* C11 witness: a fetch was rejected after an earlier one had filled profile
C11_Witness ==
  /\ Did("loadUserProfile", "rejected")
  /\ state.profile # None
  /\ state.error # None

\* C12: profile changes only in two kinds of step: a resolved loadUserProfile
\* sets it to the record that fetch returns, and the logout event sets it to
\* null; so a non-null profile is always the record of the latest resolved
\* fetch since the last logout event, and init, updateToken and the sync
\* events never fill it
C12_ProfileOnlyFromFetch ==
  [][/\ (Created /\ state'.profile # state.profile)
          => \/ last'.op = "loadUserProfile" /\ last'.out = "resolved"
             \/ last'.op = "onAuthLogout"
     /\ (last'.op = "loadUserProfile" /\ last'.out = "resolved")
          => state'.profile = last'.ret
     /\ last'.op = "onAuthLogout" => state'.profile = None
     /\ ~Created => globalState'[1].profile = None]_vars

\* C12 witness: a second fetch returned the edited record over the first one,
\* on a store that init had synced to a logged-in adapter
C12_Witness ==
  /\ Did("loadUserProfile", "resolved")
  /\ state.profile = Some(EditedProfile)
  /\ state.isAuthenticated
  /\ pending["loadUserProfile"] > 0

\* C13: right after the logout event is handled, token, idToken and
\* refreshToken and their parsed claims are absent from the store
C13_LogoutClearsTokens ==
  Did("onAuthLogout", "event")
    => /\ state.token = Undef /\ state.tokenParsed = None
       /\ state.idToken = Undef /\ state.idTokenParsed = None
       /\ state.refreshToken = Undef /\ state.refreshTokenParsed = None

\* C14: right after the logout event is handled, isAuthenticated is false,
\* profile is null, and the caller's onAuthLogout callback has run once if it
\* was registered and not at all otherwise
C14_LogoutEvent ==
  Did("onAuthLogout", "event")
    => /\ ~state.isAuthenticated
       /\ state.profile = None
       /\ last.cb = IF "onAuthLogout" \in callbacks
                    THEN <<[name |-> "onAuthLogout", arg |-> None]>>
                    ELSE <<>>

\* C14 witness: the logout event reached a registered callback on a store
\* that still held the session's token
C14_Witness ==
  /\ Did("onAuthLogout", "event")
  /\ Len(last.cb) = 1
  /\ ~state.isAuthenticated
  /\ state.token = "at1"

\* { ...defaults, ...options }: a field of options wins where it is present
Spread(defaults, options) ==
  [f \in DOMAIN defaults |-> IF options[f] # None THEN options[f] ELSE defaults[f]]

\* the init calls among the adapter calls of the step just taken
InitCalls(l) == SelectSeq(l.calls, LAMBDA c : c.fn = "init")

C16_UseBeforeInstallThrows ==
  [][(last'.op = "useKeycloak" /\ app.provided = None)
       => /\ last'.out = "threw"
          /\ last'.thrown = Some(Error(NotInitialized))
          /\ last'.ret = None
          /\ globalState' = globalState]_vars

\* C16 witness: useKeycloak threw before anything was constructed
C16_Witness == Did("useKeycloak", "threw") /\ ~Created /\ app.installs = 0

\* C17 as stated: once the store has its adapter, by install or by a direct
\* initKeycloak call, useKeycloak returns a handle
C17_UseAfterConstruction ==
  (last.op = "useKeycloak" /\ HasInstance) => last.out = "returned"

\* C17 amended: once the plugin has been installed, useKeycloak returns the
\* handle install provided, onto the one store and its adapter, and
\* constructs nothing
C17_UseAfterInstall ==
  [][(last'.op = "useKeycloak" /\ app.installs > 0)
       => /\ last'.out = "returned"
          /\ last'.ret = Some(Handle)
          /\ HasInstance
          /\ built' = built /\ Len(built) = 1
          /\ globalState' = globalState]_vars

\* C17 witness: useKeycloak returned a handle after an install
C17_Witness ==
  /\ Did("useKeycloak", "returned")
  /\ last.ret = Some(Handle)
  /\ app.installs > 0

C19_InstallSurvivesInitFailure ==
  [][/\ last'.op = "install"
          => app'.provided = Some(Handle) /\ app'.property = Some(Handle)
     /\ (last'.op = "autoInit" /\ last'.out # "resolved")
          => /\ last'.out = "caught"
             /\ last'.thrown = None
             /\ Len(app'.logged) = Len(app.logged) + 1
             /\ state'.error = Some(toError(app'.logged[Len(app'.logged)]))
             /\ ~state'.isLoading
             /\ app'.provided = Some(Handle) /\ app'.property = Some(Handle)]_vars

\* C19 witness: the init started by install was rejected and caught
C19_Witness ==
  /\ Did("autoInit", "caught")
  /\ Len(app.logged) > 0
  /\ state.error # None
  /\ app.provided = Some(Handle)

\* C20: an install without initOptions passes DEFAULT_INIT_OPTIONS to the
\* adapter's init, and one with initOptions passes them over the defaults
C20_DefaultsApplied ==
  (Did("install", "returned") /\ AutoInit(last.arg[1]))
    => InitCalls(last) =
         <<Call("init", Spread(DEFAULT_INIT_OPTIONS, OrEmpty(last.arg[1].initOptions)))>>

\* a string that is there: neither undefined nor ''
Filled(x) == x \notin {Undef, ""}

\* C21 as stated: username is the token's preferred_username whenever that
\* claim is present, and the profile's username only when it is absent; email
\* likewise
C21_TokenClaimWins ==
  /\ Did("username", "returned")
       => last.ret = Some(IF Claim(state, "preferred_username") # Undef
                          THEN Claim(state, "preferred_username")
                          ELSE ProfileField(state, "username"))
  /\ Did("email", "returned")
       => last.ret = Some(IF Claim(state, "email") # Undef
                          THEN Claim(state, "email")
                          ELSE ProfileField(state, "email"))

\* C21 amended: username is the token's preferred_username whenever that claim
\* is present and not empty, whatever the profile says; when the claim is
\* absent or '' it is the profile's username (undefined without a profile);
\* email likewise
C21_FilledTokenClaimWins ==
  /\ Did("username", "returned")
       => last.ret = Some(IF Filled(Claim(state, "preferred_username"))
                          THEN Claim(state, "preferred_username")
                          ELSE ProfileField(state, "username"))
  /\ Did("email", "returned")
       => last.ret = Some(IF Filled(Claim(state, "email"))
                          THEN Claim(state, "email")
                          ELSE ProfileField(state, "email"))

\* C21 witness: token and profile disagree on the username and the token's won
C21_Witness ==
  /\ Did("username", "returned")
  /\ Filled(ProfileField(state, "username"))
  /\ Filled(Claim(state, "preferred_username"))
  /\ ProfileField(state, "username") # Claim(state, "preferred_username")
  /\ last.ret = Some(Claim(state, "preferred_username"))

\* C22 as stated: fullName is firstName + ' ' + lastName when the profile has
\* both, even with a name claim; otherwise the token's name claim; otherwise
\* absent
C22_ProfileNameWins ==
  Did("fullName", "returned")
    => last.ret = Some(IF /\ ProfileField(state, "firstName") # Undef
                          /\ ProfileField(state, "lastName") # Undef
                       THEN ProfileField(state, "firstName") \o " "
                              \o ProfileField(state, "lastName")
                       ELSE Claim(state, "name"))

\* C22 amended: fullName is firstName + ' ' + lastName when the profile has
\* both and neither is empty, even with a name claim; otherwise it is the
\* token's name claim, undefined when there is no token or no such claim
C22_FilledProfileNameWins ==
  Did("fullName", "returned")
    => last.ret = Some(IF /\ Filled(ProfileField(state, "firstName"))
                          /\ Filled(ProfileField(state, "lastName"))
                       THEN ProfileField(state, "firstName") \o " "
                              \o ProfileField(state, "lastName")
                       ELSE Claim(state, "name"))

\* C22 witness: the profile's two names won over the token's name claim
C22_Witness ==
  /\ Did("fullName", "returned")
  /\ Filled(Claim(state, "name"))
  /\ last.ret = Some("Ada Lovelace")

\* C23: realmRoles and resourceRoles(x) are always arrays, never undefined,
\* and empty when the store holds no role data for them
C23_RolesAreSequences ==
  /\ Did("realmRoles", "returned")
       => /\ last.ret # None
          /\ state.realmAccess = None => last.ret = Some(<<>>)
  /\ Did("resourceRoles", "returned")
       => /\ last.ret # None
          /\ (\/ state.resourceAccess = None
              \/ last.arg[1].resource \notin DOMAIN state.resourceAccess[1])
               => last.ret = Some(<<>>)

\* C23 witness: realmRoles read on a store without role data gave []
C23_Witness ==
  /\ Did("realmRoles", "returned")
  /\ state.realmAccess = None
  /\ last.ret = Some(<<>>)

\* C24: without an adapter the two role tests return false and ask nobody;
\* with one they ask it once, with their own arguments, and return its answer
C24_RoleTestsDelegate ==
  last.op \in {"hasRealmRole", "hasResourceRole"}
    => IF state.instance = None
       THEN last.ret = Some(FALSE) /\ last.calls = <<>> /\ last.thrown = None
       ELSE /\ Len(last.calls) = 1
            /\ last.calls[1].fn = last.op
            /\ last.calls[1].arg = last.arg[1]
            /\ last.ret = Some(last.calls[1].answer)

\* C24 witness: a role the store's realmAccess lists was tested without an
\* adapter, and the answer was false
C24_Witness ==
  /\ Did("hasRealmRole", "returned")
  /\ state.instance = None
  /\ state.realmAccess # None
  /\ last.arg[1].role = "admin"
  /\ last.ret = Some(FALSE)

\* C25: isTokenExpired is true without an adapter or without parsed claims in
\* the store, and asks nobody; otherwise it is the adapter's isTokenExpired(0)
C25_TokenExpiredDelegates ==
  Did("isTokenExpired", "returned")
    => IF state.instance = None \/ state.tokenParsed = None
       THEN last.ret = Some(TRUE) /\ last.calls = <<>>
       ELSE /\ last.calls = <<[fn |-> "isTokenExpired", arg |-> 0,
                                answer |-> last.ret[1]]>>

\* C25 witness: an adapter is there, the store has no claims, the answer is true
C25_Witness ==
  /\ Did("isTokenExpired", "returned")
  /\ state.instance # None
  /\ state.tokenParsed = None
  /\ last.ret = Some(TRUE)

C28_AdapterPerConfig ==
  Did("initKeycloak", "returned")
    => \E i \in DOMAIN built : built[i].config = last.arg[1].config

\* C29: the store an onReady callback finds when it is invoked is the store
\* the handler leaves: isReady true, isLoading false, the mirrored fields
\* equal to the adapter's
C29_ReadyCallbackSeesSyncedStore ==
  (Did("onReady", "event") /\ last.cb # <<>>)
    => LET seen == last.cb[1].seen IN
       /\ seen.isReady
       /\ ~seen.isLoading
       /\ Mirror(seen) = Mirror(updateState(seen, kc))
       /\ seen = state

\* C29 witness: the callback found a ready store holding the adapter's token
C29_Witness ==
  /\ Did("onReady", "event")
  /\ last.cb # <<>>
  /\ last.cb[1].seen.isReady
  /\ last.cb[1].seen.token = "at1"
  /\ kc.token = "at1"

\* C30: when init hands its call to the adapter, isLoading is true and error
\* is null; when a successful init or a rotated updateToken delivers its
\* result the mirrored fields equal the adapter's, and when a successful
\* loadUserProfile delivers its record, profile holds that record
C30_StoreBeforeResult ==
  /\ Did("init", "call")
       => /\ state.isLoading /\ state.error = None
          /\ Len(InitCalls(last)) = 1
  /\ Did("init", "resolved")
       => Mirror(state) = Mirror(updateState(state, kc)) /\ ~state.isLoading
  /\ (Did("updateToken", "resolved") /\ last.ret = Some(TRUE))
       => Mirror(state) = Mirror(updateState(state, kc))
  /\ Did("loadUserProfile", "resolved") => state.profile = last.ret

\* C30 witness: an init delivered true on a store that already holds the
\* session of the adapter
C30_Witness ==
  /\ Did("init", "resolved")
  /\ last.ret = Some(TRUE)
  /\ state.token = "at1"
  /\ ~state.isLoading

\* C31: a refresh-error event changes isAuthenticated to false and no other
\* field of the store, a token-expired event changes no field of the store;
\* each invokes the caller's callback of its name when one was given, and
\* neither throws
C31_QuietEvents ==
  [][/\ last'.op = "onAuthRefreshError"
          => /\ globalState' = Some([state EXCEPT !.isAuthenticated = FALSE])
             /\ last'.cb = IF "onAuthRefreshError" \in callbacks
                           THEN <<[name |-> "onAuthRefreshError", arg |-> None]>>
                           ELSE <<>>
             /\ last'.thrown = None
     /\ last'.op = "onTokenExpired"
          => /\ globalState' = globalState
             /\ last'.cb = IF "onTokenExpired" \in callbacks
                           THEN <<[name |-> "onTokenExpired", arg |-> None]>>
                           ELSE <<>>
             /\ last'.thrown = None]_vars

\* C31 witness: a refresh error told to the caller on a store that keeps its
\* token, its profile and an earlier error
C31_Witness ==
  /\ Did("onAuthRefreshError", "event")
  /\ Len(last.cb) = 1
  /\ ~state.isAuthenticated
  /\ state.token = "at1"
  /\ state.profile # None
  /\ state.error # None
  /\ state.isReady

SyncPoint ==
  \/ last.op \in {"onReady", "onAuthSuccess", "onAuthRefreshSuccess", "clearToken"}
  \/ Did("init", "resolved")
  \/ Did("updateToken", "resolved") /\ last.ret = Some(TRUE)

\* the store holds, field by field, what the adapter holds: a missing
\* authenticated flag is false in the store, and a time skew the adapter
\* does not have (null or undefined) is undefined in the store
SameAsAdapter ==
  /\ state.isAuthenticated = (kc.authenticated = Some(TRUE))
  /\ state.token = kc.token
  /\ state.idToken = kc.idToken
  /\ state.refreshToken = kc.refreshToken
  /\ state.tokenParsed = kc.tokenParsed
  /\ state.idTokenParsed = kc.idTokenParsed
  /\ state.refreshTokenParsed = kc.refreshTokenParsed
  /\ state.subject = kc.subject
  /\ state.realmAccess = kc.realmAccess
  /\ state.resourceAccess = kc.resourceAccess
  /\ IF kc.timeSkew.k = "number" THEN state.timeSkew = kc.timeSkew
     ELSE state.timeSkew = SkewUndef
  /\ state.responseMode = kc.responseMode
  /\ state.flow = kc.flow
  /\ state.responseType = kc.responseType

C36_OnlyReadyEventSetsReady ==
  [][/\ (~Created /\ globalState' # None) => ~globalState'[1].isReady
     /\ (Created /\ ~state.isReady /\ globalState'[1].isReady)
          => last'.op = "onReady"]_vars

\* C36 witness: an init has resolved, tokens are in the store, and the store
\* is still not ready because no ready event came
C36_Witness ==
  /\ Did("init", "resolved")
  /\ state.token = "at1"
  /\ ~state.isReady

\* C37: a recorded error is cleared by the start of an init (called through
\* the handle, or by install as its automatic init) and by no other step; it
\* is replaced only by a failure, that is a rejected init, updateToken or
\* loadUserProfile, or an auth-error event; a resolved updateToken or
\* loadUserProfile, clearToken and every other event leave it as it was
C37_OnlyInitClearsError ==
  [][(Created /\ globalState'[1].error # state.error)
       => \/ /\ \/ last'.op = "init" /\ last'.out = "call"
                \/ last'.op = "install" /\ app'.autoInits > app.autoInits
             /\ globalState'[1].error = None
          \/ /\ \/ last'.op \in AsyncOps /\ last'.out = "rejected"
                \/ last'.op = "autoInit" /\ last'.out = "caught"
                \/ last'.op = "onAuthError"
             /\ globalState'[1].error # None]_vars

\* C37 witness: an updateToken rotated the tokens and the error recorded
\* earlier is still in the store
C37_Witness ==
  /\ Did("updateToken", "resolved")
  /\ last.ret = Some(TRUE)
  /\ state.error # None
  /\ state.token = "at1"

\* C38: once an initKeycloak call, direct or made by install, has returned,
\* the store has an adapter; from then on every step leaves the store with
\* that same adapter, none is constructed in its place, and every operation
\* and event runs on a store that has it
C38_InstanceStays ==
  [][/\ last'.op \in {"initKeycloak", "install"}
          => globalState' # None /\ globalState'[1].instance # None
     /\ HasInstance
          => /\ globalState' # None
             /\ globalState'[1].instance = state.instance
             /\ built' = built
     /\ last'.op \notin {"none", "initKeycloak", "install", "useKeycloak"}
          => HasInstance /\ Len(built) = 1]_vars

\* C38 witness: install came after a direct initKeycloak and named another
\* config; the store still has the adapter of the first call, the only one
\* constructed
C38_Witness ==
  /\ Did("install", "returned")
  /\ HasInstance
  /\ Len(built) = 1
  /\ built[1].config # last.arg[1].config
  /\ last.calls = <<>>

====
